---------------------------- MODULE Spec2Model ----------------------------
(***************************************************************************)
(* Model of main.py: the Bronze Star inbound email parser and its post to  *)
(* the Granot lead-intake endpoint.                                        *)
(*                                                                         *)
(* Strings are sequences of one-character strings, so that the regular     *)
(* expressions, str methods and strptime/strftime of the source are        *)
(* computed character by character.  Configuration values the code never   *)
(* looks inside (API id, mover reference, service-type id) are plain       *)
(* strings.                                                                *)
(***************************************************************************)
EXTENDS Integers, Sequences, FiniteSets, TLC

(***************************************************************************)
(* Characters and the str / re primitives the source uses.                 *)
(***************************************************************************)
UpperCase == <<"A", "B", "C", "D", "E", "F", "G", "H", "I", "J", "K", "L", "M", "N", "O", "P", "Q", "R", "S", "T", "U", "V", "W", "X", "Y", "Z">>

LowerCase == <<"a", "b", "c", "d", "e", "f", "g", "h", "i", "j", "k", "l", "m", "n", "o", "p", "q", "r", "s", "t", "u", "v", "w", "x", "y", "z">>

DigitChars == <<"0", "1", "2", "3", "4", "5", "6", "7", "8", "9">>

Range(s) == {s[i] : i \in DOMAIN s}

UpperSet == Range(UpperCase)

AlphaSet == Range(UpperCase) \cup Range(LowerCase)

DigitSet == Range(DigitChars)

\* str.lower() on the ASCII capitals
LowerOf == [c \in UpperSet |-> LowerCase[CHOOSE i \in DOMAIN UpperCase : UpperCase[i] = c]]

\* int() of each decimal digit
DigitValOf == [c \in DigitSet |-> (CHOOSE i \in DOMAIN DigitChars : DigitChars[i] = c) - 1]

\* the least j in lo..hi with P(j), hi + 1 if there is none: where a scan from lo stops
FirstIn(lo, hi, P(_)) ==
    IF \E j \in lo..hi : P(j)
    THEN CHOOSE j \in lo..hi : P(j) /\ \A k \in lo..(j - 1) : ~P(k)
    ELSE hi + 1

SetMin(S) == CHOOSE x \in S : \A y \in S : x <= y

SetMax(S) == CHOOSE x \in S : \A y \in S : x >= y

\* \d of re (ASCII part)
IsDigit(c) == c \in DigitSet

\* [A-Z] under re.I
IsAlpha(c) == c \in AlphaSet

\* \s of re, and the characters str.strip() removes
IsSpace(c) == c \in {" ", "\t", "\n", "\r"}

\* case folding of re.I / str.lower() on ASCII
Lower(c) == IF c \in UpperSet THEN LowerOf[c] ELSE c

\* int() of a single decimal digit
DigitVal(c) == DigitValOf[c]

\* int() of a string of decimal digits
RECURSIVE ToInt(_)
ToInt(s) ==
    IF s = <<>> THEN 0
    ELSE 10 * ToInt(SubSeq(s, 1, Len(s) - 1)) + DigitVal(s[Len(s)])

\* str() of a natural number
RECURSIVE ToStr(_)
ToStr(n) ==
    IF n < 10 THEN <<DigitChars[n + 1]>>
    ELSE ToStr(n \div 10) \o <<DigitChars[(n % 10) + 1]>>

\* the characters of s at the positions K, in order
Pick(s, K) ==
    LET at  == [i \in DOMAIN s |-> <<i, s[i]>>]
        sel == SelectSeq(at, LAMBDA p : p[1] \in K)
    IN  [i \in DOMAIN sel |-> sel[i][2]]

\* str.strip()
Strip(s) ==
    SubSeq(s, FirstIn(1, Len(s), LAMBDA j : ~IsSpace(s[j])),
              Len(s) + 1 - FirstIn(1, Len(s), LAMBDA j : ~IsSpace(s[Len(s) + 1 - j])))

\* s[:n]
Prefix(s, n) == SubSeq(s, 1, IF Len(s) < n THEN Len(s) ELSE n)

\* s.split(sep) for a one-character separator
RECURSIVE Split(_, _)
Split(s, sep) ==
    LET Cut(i) == IF i > Len(s) THEN <<s>>
                  ELSE <<SubSeq(s, 1, i - 1)>> \o Split(SubSeq(s, i + 1, Len(s)), sep)
    IN  Cut(FirstIn(1, Len(s), LAMBDA j : s[j] = sep))

\* sep.join(parts)
RECURSIVE Join(_, _)
Join(parts, sep) ==
    IF parts = <<>> THEN <<>>
    ELSE IF Len(parts) = 1 THEN parts[1]
    ELSE parts[1] \o sep \o Join(Tail(parts), sep)

\* the first position at or after i of s that holds no whitespace (Len(s)+1 if none):
\* where a greedy \s* of re stops
SkipSpace(s, i) == FirstIn(i, Len(s), LAMBDA j : ~IsSpace(s[j]))

\* the position after the longest run, starting at i, of characters in class C:
\* where a greedy [C]* of re stops
RunEnd(s, i, C(_)) == FirstIn(i, Len(s), LAMBDA j : ~C(s[j]))

(***************************************************************************)
(* _pick_first_nonempty, _norm_whitespace, _extract, _extract_any          *)
(***************************************************************************)
\* main.py 41-45: the first value that is non-empty after strip(), stripped
RECURSIVE _pick_first_nonempty(_)
_pick_first_nonempty(vals) ==
    LET Or(v) == IF v # <<>> THEN v ELSE _pick_first_nonempty(Tail(vals))
    IN  IF vals = <<>> THEN <<>> ELSE Or(Strip(vals[1]))

\* main.py 48-52
_norm_whitespace(s0) ==
    LET \* re.sub(r"\n{3,}", "\n\n"): of a run of newlines keep the first two; .strip()
        Collapse(s2) ==
            Strip(Pick(s2, {i \in DOMAIN s2 :
                     ~(s2[i] = "\n" /\ i > 2 /\ s2[i - 1] = "\n" /\ s2[i - 2] = "\n")}))
        \* .replace("\r", "\n")
        ToLF(s1) == Collapse([i \in DOMAIN s1 |-> IF s1[i] = "\r" THEN "\n" ELSE s1[i]])
        \* .replace("\r\n", "\n"): drop each \r that a \n follows
    IN  ToLF(Pick(s0, {i \in DOMAIN s0 :
                         ~(s0[i] = "\r" /\ i < Len(s0) /\ s0[i + 1] = "\n")}))

\* whether label occurs in text at position q, ignoring case (re.I)
LabelAt(text, q, label) ==
    /\ q + Len(label) - 1 <= Len(text)
    /\ \A k \in DOMAIN label : Lower(text[q + k - 1]) = Lower(label[k])

\* The match of (?im)^\s*LABEL\s*:\s*(.+?)\s*$ that starts at line start p:
\* the position where group 1 starts, 0 if there is no match at p.
\* Every \s* is greedy and also runs over line breaks.
ExtractAt(text, p, label) ==
    LET Check(q, r, s) ==
            IF /\ LabelAt(text, q, label)
               /\ r <= Len(text) /\ text[r] = ":"
               /\ s <= Len(text)
            THEN s ELSE 0
        AfterColon(q, r) == Check(q, r, SkipSpace(text, r + 1))
        AfterLabel(q)    == AfterColon(q, SkipSpace(text, q + Len(label)))
    IN  AfterLabel(SkipSpace(text, p))

\* whether ^ matches at p under re.M
IsLineStart(text, p) == p = 1 \/ text[p - 1] = "\n"

\* main.py 55-63: group 1 of the first match, stripped; "" without a match.
\* Group 1 runs from its start to the end of that line.
_extract(text, label) ==
    LET Group(s) == Strip(SubSeq(text, s, RunEnd(text, s, LAMBDA c : c # "\n") - 1))
        First(p) == IF p > Len(text) THEN <<>> ELSE Group(ExtractAt(text, p, label))
    IN  First(FirstIn(1, Len(text),
                      LAMBDA p : IsLineStart(text, p) /\ ExtractAt(text, p, label) # 0))

\* main.py 66-71
RECURSIVE _extract_any(_, _)
_extract_any(text, labels) ==
    LET Or(v) == IF v # <<>> THEN v ELSE _extract_any(text, Tail(labels))
    IN  IF labels = <<>> THEN <<>> ELSE Or(_extract(text, labels[1]))


(***************************************************************************)
(* State.  The process serves several requests concurrently; each request  *)
(* is a coroutine that is suspended only while it awaits its payload and   *)
(* while it awaits the reply to its post.                                  *)
(***************************************************************************)
VARIABLES
    env,        \* os.environ, read through _env: fixed for the life of the process
    libcPadsYear, \* whether the platform's strftime renders %Y with 4 digits for years < 1000
    pc,         \* pc[r]: where request r's coroutine is
    payload,    \* payload[r]: the dict _get_payload returned
    fields,     \* fields[r]: what _build_granot_fields returned
    posted,     \* posted[r]: post_fields, the form body of the post
    posts,      \* posts[r]: how many times client.post was called for r
    reply,      \* reply[r]: r.text of the upstream reply
    response    \* response[r]: the JSONResponse returned to the caller

vars == <<env, libcPadsYear, pc, payload, fields, posted, posts, reply, response>>

(***************************************************************************)
(* _extract_email (main.py 74-86)                                          *)
(***************************************************************************)
\* [A-Z0-9._%+-] under re.I
IsLocalChar(c) == IsAlpha(c) \/ IsDigit(c) \/ c \in {".", "_", "%", "+", "-"}

\* [A-Z0-9.-] under re.I
IsDomainChar(c) == IsAlpha(c) \/ IsDigit(c) \/ c \in {".", "-"}

\* The match of ([A-Z0-9._%+-]+@[A-Z0-9.-]+\.[A-Z]{2,}) starting at i: the position
\* after its last character, 0 if there is none.  The domain part is greedy, so of
\* the dots followed by two letters the last one in the run of domain characters
\* starts the TLD.
EmailMatchEnd(s, i) ==
    LET Tld(a, dots) ==
            IF a > i /\ a <= Len(s) /\ s[a] = "@" /\ dots # {}
            THEN RunEnd(s, SetMax(dots) + 1, IsAlpha)
            ELSE 0
        Domain(a, dEnd) ==
            Tld(a, {k \in (a + 2)..(dEnd - 1) :
                      /\ s[k] = "."
                      /\ k + 2 <= Len(s)
                      /\ IsAlpha(s[k + 1]) /\ IsAlpha(s[k + 2])})
        Local(a) == IF a > i /\ a <= Len(s) /\ s[a] = "@"
                    THEN Domain(a, RunEnd(s, a + 1, IsDomainChar))
                    ELSE 0
    IN  IF IsLocalChar(s[i]) THEN Local(RunEnd(s, i, IsLocalChar)) ELSE 0

\* re.search of the email pattern: group 1 of the leftmost match, <<>> for None
EmailSearch(s) ==
    LET First(i) == IF i > Len(s) THEN <<>> ELSE SubSeq(s, i, EmailMatchEnd(s, i) - 1)
    IN  First(FirstIn(1, Len(s), LAMBDA i : EmailMatchEnd(s, i) # 0))

\* re.sub(r"<mailto:.*?>", "", v, flags=re.I)
RECURSIVE RemoveMailto(_)
RemoveMailto(v) ==
    LET tag == <<"<", "m", "a", "i", "l", "t", "o", ":">>
        Cut(i, j) == SubSeq(v, 1, i - 1) \o RemoveMailto(SubSeq(v, j + 1, Len(v)))
        Close(i)  == IF i > Len(v) THEN v
                     ELSE Cut(i, FirstIn(i + Len(tag), Len(v), LAMBDA j : v[j] = ">"))
    IN  Close(FirstIn(1, Len(v),
                      LAMBDA i : /\ LabelAt(v, i, tag)
                                 /\ \E j \in (i + Len(tag))..Len(v) : v[j] = ">"))

EmailLabels == <<<<"E", "m", "a", "i", "l">>, <<"E", "-", "m", "a", "i", "l">>>>

_extract_email(text) ==
    LET \* main.py 81-82
        Token(v, m) == IF m # <<>> THEN m ELSE v
        \* main.py 79
        Clean(v)    == Token(v, EmailSearch(v))
        Line(v0)    == IF v0 # <<>> THEN Clean(Strip(RemoveMailto(v0)))
                       ELSE EmailSearch(text)
    IN  Line(_extract_any(text, EmailLabels))

(***************************************************************************)
(* _extract_phone (main.py 89-97)                                          *)
(***************************************************************************)
\* re.sub(r"\D", "", v)
DigitsOf(v) == SelectSeq(v, IsDigit)

PhoneLabels == <<<<"P", "h", "o", "n", "e">>, <<"P", "h", "o", "n", "e", " ", "n", "u", "m", "b", "e", "r">>, <<"T", "e", "l", "e", "p", "h", "o", "n", "e">>>>

_extract_phone(text) ==
    LET Normalize(digits) ==
            IF Len(digits) = 11 /\ digits[1] = "1" THEN Tail(digits) ELSE digits
        Line(v) == IF v = <<>> THEN <<>> ELSE Normalize(DigitsOf(v))
    IN  Line(_extract_any(text, PhoneLabels))

(***************************************************************************)
(* _parse_move_date (main.py 100-136)                                      *)
(***************************************************************************)
NoDate == [year |-> 0, month |-> 0, day |-> 0]

IsLeap(y) == (y % 4 = 0 /\ y % 100 # 0) \/ y % 400 = 0

DaysInMonth(y, m) ==
    IF m = 2 THEN (IF IsLeap(y) THEN 29 ELSE 28)
    ELSE IF m \in {4, 6, 9, 11} THEN 30 ELSE 31

\* datetime(y, m, d): the date, NoDate where the constructor raises ValueError
MakeDate(y, m, d) ==
    IF y >= 1 /\ y <= 9999 /\ m >= 1 /\ m <= 12 /\ d >= 1 /\ d <= DaysInMonth(y, m)
    THEN [year |-> y, month |-> m, day |-> d]
    ELSE NoDate

\* the regular expressions _strptime compiles for %d, %m and %Y, matched against a
\* whole component:
\*   %d  (3[0-1]|[1-2]\d|0[1-9]|[1-9]| [1-9])
\*   %m  (1[0-2]|0[1-9]|[1-9])
\*   %Y  (\d\d\d\d)
MatchesDirective(part, directive) ==
    LET n == Len(part)
    IN  CASE directive = "d" ->
               \/ n = 2 /\ part[1] = "3" /\ part[2] \in {"0", "1"}
               \/ n = 2 /\ part[1] \in {"1", "2"} /\ IsDigit(part[2])
               \/ n = 2 /\ part[1] \in {"0", " "} /\ IsDigit(part[2]) /\ part[2] # "0"
               \/ n = 1 /\ IsDigit(part[1]) /\ part[1] # "0"
          [] directive = "m" ->
               \/ n = 2 /\ part[1] = "1" /\ part[2] \in {"0", "1", "2"}
               \/ n = 2 /\ part[1] = "0" /\ IsDigit(part[2]) /\ part[2] # "0"
               \/ n = 1 /\ IsDigit(part[1]) /\ part[1] # "0"
          [] directive = "Y" ->
               n = 4 /\ \A i \in 1..4 : IsDigit(part[i])

\* int() of a component that matched its directive (%d also admits " 7")
PartInt(part) == ToInt(SelectSeq(part, IsDigit))

\* datetime.strptime(raw, fmt) for a format of three directives joined by "/":
\* the date, NoDate where strptime raises ValueError
strptime(raw, fmt) ==
    LET Parse(parts) ==
            LET at(d) == PartInt(parts[CHOOSE i \in 1..3 : fmt[i] = d])
            IN  IF Len(parts) = 3 /\ \A i \in 1..3 : MatchesDirective(parts[i], fmt[i])
                THEN MakeDate(at("Y"), at("m"), at("d"))
                ELSE NoDate
    IN  Parse(Split(raw, "/"))

\* "%02d" % n
Pad2(n) == IF n < 10 THEN <<"0">> \o ToStr(n) ELSE ToStr(n)

\* what %Y gives: the C library decides whether a year below 1000 is zero-padded
FormatYear(y) ==
    LET Render(digits) ==
            IF libcPadsYear /\ y < 1000
            THEN SubSeq(<<"0", "0", "0">>, 1, 4 - Len(digits)) \o digits
            ELSE digits
    IN  Render(ToStr(y))

\* dt.strftime("%m/%d/%Y")
strftime(dt) == Pad2(dt.month) \o <<"/">> \o Pad2(dt.day) \o <<"/">> \o FormatYear(dt.year)

\* The match of (\d{1,2})/(\d{1,2})/(\d{4}) starting at i: the three groups, <<>> if
\* there is no match at i.  \d{1,2} is greedy but a "/" must follow it.
DateTokenAt(s, i) ==
    LET \* how many digits \d{1,2} takes at n
        Width(n) ==
            IF n + 2 <= Len(s) /\ IsDigit(s[n]) /\ IsDigit(s[n + 1]) /\ s[n + 2] = "/" THEN 2
            ELSE IF n + 1 <= Len(s) /\ IsDigit(s[n]) /\ s[n + 1] = "/" THEN 1
            ELSE 0
        Year(g1, j, g2, k) ==
            IF /\ g1 > 0 /\ g2 > 0
               /\ k + 3 <= Len(s)
               /\ \A n \in k..(k + 3) : IsDigit(s[n])
            THEN <<SubSeq(s, i, i + g1 - 1), SubSeq(s, j, j + g2 - 1), SubSeq(s, k, k + 3)>>
            ELSE <<>>
        Second(g1, j, g2) == Year(g1, j, g2, j + g2 + 1)
        First(g1, j)      == Second(g1, j, Width(j))
        Start(g1)         == First(g1, i + g1 + 1)
    IN  Start(Width(i))

\* main.py 124-136: the last resort, a date-shaped token anywhere in the text
ScanForDate(text) ==
    LET Render(dt)    == IF dt = NoDate THEN <<>> ELSE strftime(dt)
        \* main.py 129: assume DD/MM if the first number exceeds 12
        Build(d1, d2, yy) ==
            Render(MakeDate(yy, IF d1 > 12 THEN d2 ELSE d1, IF d1 > 12 THEN d1 ELSE d2))
        Groups(m)     == Build(ToInt(m[1]), ToInt(m[2]), ToInt(m[3]))
        First(i)      == IF i > Len(text) THEN <<>> ELSE Groups(DateTokenAt(text, i))
    IN  First(FirstIn(1, Len(text), LAMBDA i : DateTokenAt(text, i) # <<>>))

MoveDateLabels ==
    <<<<"M", "o", "v", "e", " ", "d", "a", "t", "e">>, <<"M", "o", "v", "e", " ", "D", "a", "t", "e">>, <<"M", "o", "v", "i", "n", "g", " ", "d", "a", "t", "e">>, <<"M", "o", "v", "i", "n", "g", " ", "D", "a", "t", "e">>,
      <<"P", "i", "c", "k", "u", "p", " ", "d", "a", "t", "e">>, <<"P", "i", "c", "k", "u", "p", " ", "D", "a", "t", "e">>>>

\* main.py 113-114: dots and dashes to slashes, all whitespace removed
NormalizeDateValue(raw) ==
    SelectSeq([i \in DOMAIN raw |-> IF raw[i] \in {".", "-"} THEN "/" ELSE raw[i]],
              LAMBDA c : ~IsSpace(c))

\* main.py 117: the formats, in the order they are tried
DateFormats == <<(<<"d", "m", "Y">>), (<<"m", "d", "Y">>), (<<"Y", "m", "d">>)>>

\* main.py 100-136
_parse_move_date(text) ==
    LET Try(raw, ok) ==
            IF ok # {} THEN strftime(strptime(raw, DateFormats[SetMin(ok)]))
            ELSE ScanForDate(text)
        Formats(raw) ==
            Try(raw, {i \in DOMAIN DateFormats : strptime(raw, DateFormats[i]) # NoDate})
        Labelled(raw0) ==
            IF raw0 = <<>> THEN <<>> ELSE Formats(NormalizeDateValue(raw0))
    IN  Labelled(Strip(_extract_any(text, MoveDateLabels)))

(***************************************************************************)
(* _movesize_from_bedrooms (main.py 139-150), _truncate (main.py 153-155)  *)
(***************************************************************************)
\* str(int(digits)) for a non-empty string of digits of any length: the leading
\* zeros go (Python integers do not overflow)
IntStr(digits) ==
    LET From(i) == IF i > Len(digits) THEN <<"0">> ELSE SubSeq(digits, i, Len(digits))
    IN  From(FirstIn(1, Len(digits), LAMBDA i : digits[i] # "0"))

_movesize_from_bedrooms(text) ==
    LET Render(n)  == IF n = <<"0">> THEN <<>> ELSE n \o <<" ", "b", "e", "d", "r", "o", "o", "m">>
        \* re.search(r"(\d+)", b): the first run of digits
        Number(b, i) == IF i > Len(b) THEN <<>>
                        ELSE Render(IntStr(SubSeq(b, i, RunEnd(b, i, IsDigit) - 1)))
        Line(b) == Number(b, FirstIn(1, Len(b), LAMBDA i : IsDigit(b[i])))
    IN  Line(Strip(_extract_any(text, <<<<"N", "u", "m", "b", "e", "r", " ", "o", "f", " ", "b", "e", "d", "r", "o", "o", "m", "s">>, <<"B", "e", "d", "r", "o", "o", "m", "s">>, <<"B", "e", "d", " ", "r", "o", "o", "m", "s">>>>)))

_truncate(s, max_len) ==
    LET Cut(t) == IF Len(t) <= max_len THEN t ELSE SubSeq(t, 1, max_len)
    IN  Cut(Strip(s))


(***************************************************************************)
(* _build_granot_fields (main.py 181-222)                                  *)
(***************************************************************************)
OriginStateLabels == <<<<"O", "r", "i", "g", "i", "n", " ", "s", "t", "a", "t", "e">>, <<"O", "r", "i", "g", "i", "n", " ", "S", "t", "a", "t", "e">>>>

DestinationStateLabels ==
    <<<<"M", "o", "v", "i", "n", "g", " ", "s", "t", "a", "t", "e">>, <<"M", "o", "v", "i", "n", "g", " ", "S", "t", "a", "t", "e">>, <<"D", "e", "s", "t", "i", "n", "a", "t", "i", "o", "n", " ", "s", "t", "a", "t", "e">>, <<"D", "e", "s", "t", "i", "n", "a", "t", "i", "o", "n", " ", "S", "t", "a", "t", "e">>>>

_build_granot_fields(text0) ==
    LET Notes(text, home_type) ==
            Strip(Join((IF home_type # <<>> THEN <<<<"H", "o", "m", "e", " ", "t", "y", "p", "e", ":", " ">> \o home_type>> ELSE <<>>)
                       \o <<<<"-", "-", "-", "-", " ", "R", "A", "W", " ", "E", "M", "A", "I", "L", " ", "T", "E", "X", "T", " ", "-", "-", "-", "-", "\n">> \o text>>,
                       <<"\n">>))
        Build(text) ==
            [firstname |-> _extract_any(text, <<<<"F", "i", "r", "s", "t", " ", "n", "a", "m", "e">>, <<"F", "i", "r", "s", "t", " ", "N", "a", "m", "e">>>>),
             lastname  |-> _extract_any(text, <<<<"L", "a", "s", "t", " ", "n", "a", "m", "e">>, <<"L", "a", "s", "t", " ", "N", "a", "m", "e">>>>),
             email     |-> _extract_email(text),
             phone1    |-> _extract_phone(text),
             movedte   |-> _parse_move_date(text),
             ocity     |-> _extract_any(text, <<<<"O", "r", "i", "g", "i", "n", " ", "c", "i", "t", "y">>, <<"O", "r", "i", "g", "i", "n", " ", "C", "i", "t", "y">>>>),
             ostate    |-> _extract_any(text, OriginStateLabels),
             ozip      |-> _extract_any(text, <<<<"O", "r", "i", "g", "i", "n", " ", "z", "i", "p">>, <<"O", "r", "i", "g", "i", "n", " ", "Z", "i", "p">>,
                                                <<"O", "r", "i", "g", "i", "n", " ", "z", "i", "p", "c", "o", "d", "e">>, <<"O", "r", "i", "g", "i", "n", " ", "P", "o", "s", "t", "a", "l", " ", "C", "o", "d", "e">>>>),
             dcity     |-> _extract_any(text, <<<<"M", "o", "v", "i", "n", "g", " ", "c", "i", "t", "y">>, <<"M", "o", "v", "i", "n", "g", " ", "C", "i", "t", "y">>,
                                                <<"D", "e", "s", "t", "i", "n", "a", "t", "i", "o", "n", " ", "c", "i", "t", "y">>, <<"D", "e", "s", "t", "i", "n", "a", "t", "i", "o", "n", " ", "C", "i", "t", "y">>>>),
             dstate    |-> _extract_any(text, DestinationStateLabels),
             dzip      |-> _extract_any(text, <<<<"M", "o", "v", "i", "n", "g", " ", "z", "i", "p">>, <<"M", "o", "v", "i", "n", "g", " ", "Z", "i", "p">>,
                                                <<"D", "e", "s", "t", "i", "n", "a", "t", "i", "o", "n", " ", "z", "i", "p">>, <<"D", "e", "s", "t", "i", "n", "a", "t", "i", "o", "n", " ", "Z", "i", "p">>,
                                                <<"D", "e", "s", "t", "i", "n", "a", "t", "i", "o", "n", " ", "z", "i", "p", "c", "o", "d", "e">>>>),
             movesize  |-> _movesize_from_bedrooms(text),
             notes     |-> Notes(text, _extract_any(text, <<<<"H", "o", "m", "e", " ", "t", "y", "p", "e">>, <<"H", "o", "m", "e", " ", "T", "y", "p", "e">>>>))]
    IN  Build(_norm_whitespace(text0))

(***************************************************************************)
(* _parse_granot_response (main.py 225-253)                                *)
(***************************************************************************)
\* int(tok) for a stripped token: an optional sign, then digits that single
\* underscores may separate.  [ok |-> FALSE] where int() raises ValueError.
PyInt(tok) ==
    LET Value(negative, body) ==
            IF /\ body # <<>>
               /\ \A i \in DOMAIN body : IsDigit(body[i]) \/ body[i] = "_"
               /\ IsDigit(body[1]) /\ IsDigit(body[Len(body)])
               /\ \A i \in 1..(Len(body) - 1) : ~(body[i] = "_" /\ body[i + 1] = "_")
            THEN [ok |-> TRUE,
                  val |-> IF negative THEN 0 - ToInt(SelectSeq(body, IsDigit))
                          ELSE ToInt(SelectSeq(body, IsDigit))]
            ELSE [ok |-> FALSE, val |-> 0]
    IN  IF tok # <<>> /\ tok[1] \in {"+", "-"}
        THEN Value(tok[1] = "-", Tail(tok))
        ELSE Value(FALSE, tok)

\* IntOr with every unreadable token counted as 0
IntOrZero(tok, dflt) ==
    LET Or(n) == IF tok # <<>> /\ n.ok THEN n.val ELSE 0
    IN  Or(PyInt(tok))

\* int(tok) if tok else dflt, and dflt where int() raises
IntOr(tok, dflt) ==
    LET Or(n) == IF tok # <<>> /\ n.ok THEN n.val ELSE dflt
    IN  Or(PyInt(tok))

_parse_granot_response(resp_text) ==
    LET Out(raw, leadid, errid, msg, sold, match) ==
            [leadid |-> leadid, errid |-> errid, msg |-> msg, sold |-> sold, match |-> match,
             raw |-> raw,
             leadid_int |-> IntOr(leadid, 0),
             errid_int  |-> IntOr(errid, 0 - 1)]
        \* parts[i] of the list padded to 5
        At(parts, i) == IF i <= Len(parts) THEN Strip(parts[i]) ELSE <<>>
        Parts(raw, parts) ==
            Out(raw, At(parts, 1), At(parts, 2), At(parts, 3), At(parts, 4), At(parts, 5))
        Raw(raw) == Parts(raw, Split(raw, ","))
    IN  Raw(Strip(resp_text))

(***************************************************************************)
(* inbound_bronze_email (main.py 265-371)                                  *)
(***************************************************************************)
\* main.py 36-38: the variable's value stripped, the default if unset or blank
_env(name, default) ==
    LET Or(v) == IF v # <<>> THEN v ELSE default
    IN  IF name \in DOMAIN env THEN Or(Strip(env[name])) ELSE default

\* payload.get(key) or ""
PayloadGet(p, key) == IF key \in DOMAIN p THEN p[key] ELSE <<>>

\* main.py 271-277
RawText(p) ==
    _pick_first_nonempty(<<PayloadGet(p, "text"), PayloadGet(p, "Text"),
                           PayloadGet(p, "html"), PayloadGet(p, "Html"),
                           PayloadGet(p, "_raw")>>)

\* main.py 311-332
PostFields(f) ==
    [servtypeid |-> _env("GRANOT_SERVTYPEID", <<"1", "0", "2">>),
     firstname  |-> f.firstname,
     lastname   |-> f.lastname,
     email      |-> f.email,
     phone1     |-> f.phone1,
     movedte    |-> f.movedte,
     ocity      |-> f.ocity,
     ostate     |-> f.ostate,
     ozip       |-> f.ozip,
     dcity      |-> f.dcity,
     dstate     |-> f.dstate,
     dzip       |-> f.dzip,
     movesize   |-> f.movesize,
     label      |-> _truncate(_env("LABEL_DEFAULT", <<"B", "r", "o", "n", "z", "e", " ", "S", "t", "a", "r", " ", "I", "n", "b", "o", "u", "n", "d", " ", "E", "m", "a", "i", "l">>), 20),
     notes      |-> f.notes,
     consent    |-> _env("CONSENT_DEFAULT", <<"1">>)]

NoFields == [none |-> TRUE]

NoResponse == [status_code |-> 0, content |-> [none |-> TRUE]]

\* The request arrives and _get_payload returns its payload (main.py 267).
Receive(r, Payloads) ==
    /\ pc[r] = "idle"
    /\ \E p \in Payloads : payload' = [payload EXCEPT ![r] = p]
    /\ pc' = [pc EXCEPT ![r] = "received"]
    /\ UNCHANGED <<env, libcPadsYear, fields, posted, posts, reply, response>>

\* main.py 271-341: from the payload to the call of client.post, or to an early
\* return.  The coroutine is not suspended in between.
Process(r) ==
    /\ pc[r] = "received"
    /\ LET Return(code, content) ==
               /\ response' = [response EXCEPT ![r] = [status_code |-> code, content |-> content]]
               /\ pc' = [pc EXCEPT ![r] = "done"]
               /\ UNCHANGED <<posted, posts>>
           Handle(raw_text, f, api_id) ==
               IF raw_text = <<>>
               THEN /\ Return(400, [ok |-> FALSE, error |-> "Missing text/html in request payload.",
                                    payload_keys |-> DOMAIN payload[r]])
                    /\ UNCHANGED fields
               ELSE /\ fields' = [fields EXCEPT ![r] = f]
                    /\ IF f.email = <<>> /\ f.phone1 = <<>>
                       THEN Return(422, [ok |-> FALSE,
                                         error |-> "Missing email and phone after parsing.",
                                         parsed |-> f])
                       ELSE IF f.movedte = <<>>
                       THEN Return(422, [ok |-> FALSE,
                                         error |-> "Missing/invalid move date after parsing. Expecting Move date like 23/12/2025.",
                                         parsed |-> f])
                       ELSE IF api_id = <<>>
                       THEN Return(500, [ok |-> FALSE, error |-> "GRANOT_API_ID env var missing."])
                       ELSE /\ posted' = [posted EXCEPT ![r] =
                                            [API_ID |-> api_id,
                                             MOVERREF |-> _env("GRANOT_MOVERREF", <<>>),
                                             data |-> PostFields(f)]]
                            /\ posts' = [posts EXCEPT ![r] = @ + 1]
                            /\ pc' = [pc EXCEPT ![r] = "posting"]
                            /\ UNCHANGED response
           Parse(raw_text) ==
               Handle(raw_text, _build_granot_fields(raw_text), _env("GRANOT_API_ID", <<>>))
       IN  Parse(RawText(payload[r]))
    /\ UNCHANGED <<env, libcPadsYear, payload, reply>>

\* main.py 345-371: the JSONResponse for a reply
ResponseFor(r, status, text) ==
    LET Content(parsed_resp, ok) ==
            [ok |-> ok, granot_status |-> status,
             granot_response |-> parsed_resp, posted |-> posted[r].data]
        Respond(parsed_resp) ==
            IF parsed_resp.errid_int = 0 /\ parsed_resp.leadid_int = 0
            THEN Content(parsed_resp, FALSE) @@
                 [warning |-> "Granot returned errid=0 but leadid=0. This usually means the post was accepted but NOT inserted into your mover's system. Verify GRANOT_MOVERREF (lead email key) with Granot support."]
            ELSE Content(parsed_resp,
                         parsed_resp.errid_int = 0 /\ parsed_resp.leadid_int > 0)
    IN  [status_code |-> 200, content |-> Respond(_parse_granot_response(Strip(text)))]

\* PostReturns with the post sent again after a reply that is no success
PostReturnsRetrying(r, Replies) ==
    /\ pc[r] = "posting"
    /\ \E rep \in Replies :
          /\ reply' = [reply EXCEPT ![r] = rep]
          /\ IF ResponseFor(r, rep.status_code, rep.text).content.ok
             THEN /\ response' = [response EXCEPT ![r] = ResponseFor(r, rep.status_code, rep.text)]
                  /\ pc' = [pc EXCEPT ![r] = "done"]
                  /\ UNCHANGED posts
             ELSE /\ posts' = [posts EXCEPT ![r] = @ + 1]
                  /\ UNCHANGED <<response, pc>>
    /\ UNCHANGED <<env, libcPadsYear, payload, fields, posted>>

\* main.py 341-371: the post returns a reply (any HTTP status), which is
\* interpreted and reported.
PostReturns(r, Replies) ==
    /\ pc[r] = "posting"
    /\ \E rep \in Replies :
          /\ reply' = [reply EXCEPT ![r] = rep]
          /\ response' = [response EXCEPT ![r] = ResponseFor(r, rep.status_code, rep.text)]
    /\ pc' = [pc EXCEPT ![r] = "done"]
    /\ UNCHANGED <<env, libcPadsYear, payload, fields, posted, posts>>

\* main.py 340-341: client.post raises (timeout after 30 s, connection error).
\* Nothing catches it: the framework answers 500 and the coroutine ends.
PostRaises(r) ==
    /\ pc[r] = "posting"
    /\ reply' = [reply EXCEPT ![r] = [raised |-> TRUE]]
    /\ response' = [response EXCEPT ![r] =
                      [status_code |-> 500, content |-> [detail |-> "Internal Server Error"]]]
    /\ pc' = [pc EXCEPT ![r] = "done"]
    /\ UNCHANGED <<env, libcPadsYear, payload, fields, posted, posts>>


(***************************************************************************)
(* Bounds and inputs                                                       *)
(***************************************************************************)
\* concurrent requests
NumRequests == 2

\* longest upstream reply text enumerated character by character
MaxReplyLen == 4

Requests == 1..NumRequests

\* os.environ of three deployments: the documented minimum, one without the
\* required API id (blank), one with every optional variable set
EnvMinimal == [GRANOT_API_ID |-> <<"E", "A", "2", "8", "9", "0", "F", "1", "5", "A", "6", "0">>]

EnvNoApiId == [GRANOT_API_ID |-> <<" ", " ">>, GRANOT_MOVERREF |-> <<"M", "V", "7", "7">>]

EnvFull ==
    [GRANOT_API_ID |-> <<"E", "A", "2", "8", "9", "0", "F", "1", "5", "A", "6", "0">>, GRANOT_MOVERREF |-> <<"M", "V", "7", "7">>,
     GRANOT_SERVTYPEID |-> <<"1", "0", "1">>, LABEL_DEFAULT |-> <<" ", "B", "r", "o", "n", "z", "e", " ", "S", "t", "a", "r", " ", "W", "e", "b", " ", "I", "n", "t", "a", "k", "e", " ", "F", "o", "r", "m", " ">>,
     CONSENT_DEFAULT |-> <<"1">>]

Envs == {EnvMinimal, EnvNoApiId, EnvFull}

\* the complete lead of the specification's example: same state at both ends
TextLocalMove ==
    <<"E", "m", "a", "i", "l", ":", " ", "j", "a", "n", "e", "@", "x", ".", "c", "o", "m", "\n", "P", "h", "o", "n", "e", ":", " ", "(", "3", "3", "0", ")", " ", "5", "5", "5", "-", "1", "2", "1", "2", "\n", "M", "o", "v", "e", " ", "d", "a", "t", "e", ":", " ", "2", "3", "/", "1", "2", "/", "2", "0", "2", "5", "\n", "O", "r", "i", "g", "i", "n", " ", "s", "t", "a", "t", "e", ":", " ", "O", "H", "\n", "M", "o", "v", "i", "n", "g", " ", "s", "t", "a", "t", "e", ":", " ", "O", "H", "\n">>

\* contact and date but no state lines, CRLF line ends
TextNoStates == <<"P", "h", "o", "n", "e", ":", " ", "1", "-", "3", "3", "0", "-", "5", "5", "5", "-", "1", "2", "1", "2", "\r", "\n", "M", "o", "v", "e", " ", "d", "a", "t", "e", ":", " ", "2", "0", "2", "5", "-", "1", "2", "-", "2", "3", "\r", "\n">>

\* spelled-out states, a first name of 32 characters, a ZIP+4 code
TextLongValues ==
    <<"F", "i", "r", "s", "t", " ", "n", "a", "m", "e", ":", " ", "M", "a", "x", "i", "m", "i", "l", "i", "a", "n", "a", "-", "A", "l", "e", "x", "a", "n", "d", "r", "i", "n", "a", "-", "J", "o", "s", "e", "f", "i", "n", "a", "\n", "L", "a", "s", "t", " ", "n", "a", "m", "e", ":", " ", "D", "o", "e", "\n", "E", "m", "a", "i", "l", ":", " ", "m", "a", "x", "@", "x", ".", "c", "o", "m", "\n", "M", "o", "v", "e", " ", "d", "a", "t", "e", ":", " ", "1", "2", "/", "2", "3", "/", "2", "0", "2", "5", "\n", "O", "r", "i", "g", "i", "n", " ", "c", "i", "t", "y", ":", " ", "A", "k", "r", "o", "n", "\n", "O", "r", "i", "g", "i", "n", " ", "s", "t", "a", "t", "e", ":", " ", "O", "h", "i", "o", "\n", "O", "r", "i", "g", "i", "n", " ", "z", "i", "p", ":", " ", "4", "4", "3", "0", "1", "-", "1", "2", "3", "4", "\n", "M", "o", "v", "i", "n", "g", " ", "s", "t", "a", "t", "e", ":", " ", "c", "a", "\n", "B", "e", "d", "r", "o", "o", "m", "s", ":", " ", "3", "\n", "H", "o", "m", "e", " ", "t", "y", "p", "e", ":", " ", "H", "o", "u", "s", "e">>

\* no move date
TextNoDate == <<"E", "m", "a", "i", "l", ":", " ", "j", "a", "n", "e", "@", "x", ".", "c", "o", "m", "\n", "O", "r", "i", "g", "i", "n", " ", "s", "t", "a", "t", "e", ":", " ", "O", "H", "\n", "M", "o", "v", "i", "n", "g", " ", "s", "t", "a", "t", "e", ":", " ", "C", "A">>

\* neither email nor phone
TextNoContact == <<"F", "i", "r", "s", "t", " ", "n", "a", "m", "e", ":", " ", "J", "a", "n", "e", "\n", "\n", "\n", "\n", "M", "o", "v", "e", " ", "d", "a", "t", "e", ":", " ", "2", "3", "/", "1", "2", "/", "2", "0", "2", "5", "\n", "O", "r", "i", "g", "i", "n", " ", "s", "t", "a", "t", "e", ":", " ", "O", "H", "\n", "M", "o", "v", "i", "n", "g", " ", "s", "t", "a", "t", "e", ":", " ", "C", "A">>

MainPayloads ==
    {[text |-> TextLocalMove],
     [text |-> <<" ">>, html |-> TextNoStates],
     [Text |-> TextLongValues],
     [text |-> TextNoDate],
     [_raw |-> TextNoContact],
     [subject |-> <<"N", "e", "w", " ", "l", "e", "a", "d">>]}

\* an HTTP response of the endpoint: r.status_code and r.text
Reply(status, text) == [status_code |-> status, text |-> text]

\* replies of the endpoint: the documented success, the accepted-but-not-inserted
\* reply, an error code, a server error with an empty body
MainReplies ==
    {Reply(200, <<"1", "0", "4", "3", "6", "0", ",", "0", ",", "O", "K", ",", "6", ",", "6">>), Reply(200, <<"0", ",", "0", ",", ",", "0", ",", "0">>),
     Reply(200, <<"0", ",", "1", "0", "5", ",", "I", "n", "v", "a", "l", "i", "d", " ", "A", "P", "I">>), Reply(500, <<>>)}

(***************************************************************************)
(* The process                                                             *)
(***************************************************************************)
InitWith(E) ==
    /\ env \in E
    /\ libcPadsYear \in BOOLEAN
    /\ pc = [r \in Requests |-> "idle"]
    /\ payload = [r \in Requests |-> [none |-> TRUE]]
    /\ fields = [r \in Requests |-> NoFields]
    /\ posted = [r \in Requests |-> [none |-> TRUE]]
    /\ posts = [r \in Requests |-> 0]
    /\ reply = [r \in Requests |-> [none |-> TRUE]]
    /\ response = [r \in Requests |-> NoResponse]

Init == InitWith(Envs)

Next ==
    \E r \in Requests :
        \/ Receive(r, MainPayloads)
        \/ Process(r)
        \/ PostReturns(r, MainReplies)
        \/ PostRaises(r)

Spec == Init /\ [][Next]_vars


(***************************************************************************)
(* The response interpreter on every short reply text                      *)
(***************************************************************************)
ReplyAlphabet == {"0", "7", "-", ",", " ", "x"}

AllReplies ==
    {Reply(status, text) : status \in {200, 500},
                           text \in UNION {[1..n -> ReplyAlphabet] : n \in 0..MaxReplyLen}}
    \cup MainReplies

NextResponse ==
    \E r \in {SetMin(Requests)} :
        \/ Receive(r, {[text |-> TextLocalMove]})
        \/ Process(r)
        \/ PostReturns(r, AllReplies)
        \/ PostRaises(r)

SpecResponse == Init /\ [][NextResponse]_vars

(***************************************************************************)
(* The move-date parser on dates written in every order and punctuation    *)
(***************************************************************************)
DateNumbers == {<<"1">>, <<"0", "2">>, <<"1", "2">>, <<"1", "3">>, <<"2", "9">>, <<"3", "1">>}

DateYears == {<<"2", "0", "2", "4">>, <<"2", "0", "2", "5">>, <<"0", "9", "9", "9">>}

DateSeparators == {<<"/">>, <<".">>}

DateValues ==
    {a \o sep \o b \o sep \o y :
        a \in DateNumbers, b \in DateNumbers, y \in DateYears, sep \in DateSeparators}
    \cup {y \o sep \o a \o sep \o b :
        a \in DateNumbers, b \in DateNumbers, y \in DateYears, sep \in DateSeparators}
    \cup {<<"2", "3", "/", "1", "2", "/", "2", "0", "2", "5">>, <<"1", "2", "/", "2", "3", "/", "2", "0", "2", "5">>, <<"2", "0", "2", "5", "-", "1", "2", "-", "2", "3">>, <<"0", "1", "/", "0", "2", "/", "2", "0", "2", "5">>, <<"2", "3", " ", "/", " ", "1", "2", " ", "/", " ", "2", "0", "2", "5">>}

\* the date on a "Move date" line; in running text with no such line; in running
\* text under a "Move date" line that holds no date
DateTexts ==
    {<<"E", "m", "a", "i", "l", ":", " ", "j", "a", "n", "e", "@", "x", ".", "c", "o", "m", "\n", "M", "o", "v", "e", " ", "d", "a", "t", "e", ":", " ">> \o v : v \in DateValues}
    \cup {<<"E", "m", "a", "i", "l", ":", " ", "j", "a", "n", "e", "@", "x", ".", "c", "o", "m", "\n", "W", "e", " ", "m", "o", "v", "e", " ", "o", "n", " ">> \o v \o <<" ", "f", "r", "o", "m", " ", "A", "k", "r", "o", "n">> : v \in DateValues}
    \cup {<<"E", "m", "a", "i", "l", ":", " ", "j", "a", "n", "e", "@", "x", ".", "c", "o", "m", "\n", "M", "o", "v", "i", "n", "g", " ", "D", "a", "t", "e", ":", " ", "t", "o", " ", "b", "e", " ", "a", "g", "r", "e", "e", "d", "\n", "n", "o", "t", " ", "b", "e", "f", "o", "r", "e", " ">> \o v : v \in DateValues}

NextDate ==
    \E r \in {SetMin(Requests)} :
        \/ Receive(r, {[text |-> t] : t \in DateTexts})
        \/ Process(r)
        \/ PostReturns(r, {Reply(200, <<"1", "0", "4", "3", "6", "0", ",", "0", ",", "O", "K", ",", "6", ",", "6">>)})
        \/ PostRaises(r)

SpecDate == InitWith({EnvMinimal}) /\ [][NextDate]_vars

(***************************************************************************)
(* The contact extractors on every combination of email and phone lines    *)
(***************************************************************************)
EmailLines ==
    {<<>>, <<"E", "m", "a", "i", "l", ":", " ", "j", "a", "n", "e", "@", "x", ".", "c", "o", "m", "\n">>, <<"E", "-", "m", "a", "i", "l", ":", " ", "J", "a", "n", "e", " ", "D", "o", "e", " ", "j", "a", "n", "e", ".", "d", "o", "e", "@", "x", ".", "c", "o", ".", "u", "k", " ", "(", "h", "o", "m", "e", ")", "\n">>,
     <<"E", "m", "a", "i", "l", ":", " ", "n", "/", "a", "\n">>, <<"E", "m", "a", "i", "l", ":", "\n">>}

PhoneLines ==
    {<<>>, <<"P", "h", "o", "n", "e", ":", " ", "(", "3", "3", "0", ")", " ", "5", "5", "5", "-", "1", "2", "1", "2", "\n">>, <<"P", "h", "o", "n", "e", ":", " ", "1", "-", "3", "3", "0", "-", "5", "5", "5", "-", "1", "2", "1", "2", "\n">>,
     <<"T", "e", "l", "e", "p", "h", "o", "n", "e", ":", " ", "2", "-", "3", "3", "0", "-", "5", "5", "5", "-", "1", "2", "1", "2", "\n">>, <<"P", "h", "o", "n", "e", " ", "n", "u", "m", "b", "e", "r", ":", " ", "5", "5", "5", "-", "1", "2", "1", "2", "\n">>,
     <<"P", "h", "o", "n", "e", ":", " ", "1", " ", "(", "3", "3", "0", ")", " ", "5", "5", "5", "-", "1", "2", "1", "2", " ", "x", "9", "\n">>, <<"P", "h", "o", "n", "e", ":", "\n">>}

OtherLines ==
    {<<"M", "o", "v", "e", " ", "d", "a", "t", "e", ":", " ", "2", "3", "/", "1", "2", "/", "2", "0", "2", "5", "\n">>,
     <<"M", "o", "v", "e", " ", "d", "a", "t", "e", ":", " ", "2", "3", "/", "1", "2", "/", "2", "0", "2", "5", "\n", "C", "a", "l", "l", " ", "3", "3", "0", " ", "5", "5", "5", " ", "9", "9", "9", "9", " ", "o", "r", " ", "w", "r", "i", "t", "e", " ", "t", "o", " ", "b", "o", "b", "@", "y", ".", "o", "r", "g", "\n">>}

ContactTexts ==
    {e \o p \o o : e \in EmailLines, p \in PhoneLines, o \in OtherLines}

NextContact ==
    \E r \in {SetMin(Requests)} :
        \/ Receive(r, {[text |-> t] : t \in ContactTexts})
        \/ Process(r)
        \/ PostReturns(r, {Reply(200, <<"1", "0", "4", "3", "6", "0", ",", "0", ",", "O", "K", ",", "6", ",", "6">>)})
        \/ PostRaises(r)

SpecContact == InitWith({EnvMinimal}) /\ [][NextContact]_vars


(***************************************************************************)
(* The notions the properties are stated in                                *)
(***************************************************************************)
\* request r's text was parsed: fields[r] is its assembled record
Assembled(r) == fields[r] # NoFields

\* the text the extractors of request r worked on
NormText(r) == _norm_whitespace(RawText(payload[r]))

UpperOf == [c \in Range(LowerCase) |-> UpperCase[CHOOSE i \in DOMAIN LowerCase : LowerCase[i] = c]]

UpperStr(s) == [i \in DOMAIN s |-> IF s[i] \in DOMAIN UpperOf THEN UpperOf[s[i]] ELSE s[i]]

LowerStr(s) == [i \in DOMAIN s |-> Lower(s[i])]

\* A "Label: value" line, read line by line: whether the line carries the label,
\* and the value after the colon.
LineOf(line, label) ==
    LET l == Strip(line)
        r == SkipSpace(l, Len(label) + 1)
    IN  IF LabelAt(l, 1, label) /\ r <= Len(l) /\ l[r] = ":"
        THEN [has |-> TRUE, value |-> Strip(SubSeq(l, r + 1, Len(l)))]
        ELSE [has |-> FALSE, value |-> <<>>]

\* whether the text has a line carrying one of the labels
HasLabelLine(text, labels) ==
    \E i \in DOMAIN labels : \E k \in DOMAIN Split(text, "\n") :
        LineOf(Split(text, "\n")[k], labels[i]).has

\* The value of the first line carrying a label and a non-empty value, the labels
\* taken in order; empty if there is none.
LineValue(text, labels) ==
    LET lines == Split(text, "\n")
        found == {ik \in (DOMAIN labels) \X (DOMAIN lines) :
                     LineOf(lines[ik[2]], labels[ik[1]]).value # <<>>}
        best  == CHOOSE ik \in found : \A jl \in found :
                     ik[1] < jl[1] \/ (ik[1] = jl[1] /\ ik[2] <= jl[2])
    IN  IF found = {} THEN <<>> ELSE LineOf(lines[best[2]], labels[best[1]]).value

\* a date as MM/DD/YYYY, every part zero-padded
RenderMDY(dt) ==
    LET y == ToStr(dt.year)
    IN  Pad2(dt.month) \o <<"/">> \o Pad2(dt.day) \o <<"/">>
        \o SubSeq(<<"0", "0", "0">>, 1, 4 - Len(y)) \o y

\* a valid calendar date written MM/DD/YYYY
IsMDY(s) ==
    /\ Len(s) = 10
    /\ s[3] = "/" /\ s[6] = "/"
    /\ \A i \in {1, 2, 4, 5, 7, 8, 9, 10} : IsDigit(s[i])
    /\ MakeDate(ToInt(SubSeq(s, 7, 10)), ToInt(SubSeq(s, 1, 2)), ToInt(SubSeq(s, 4, 5))) # NoDate

\* local@domain.tld and nothing else
EmailShaped(s) == s # <<>> /\ EmailSearch(s) = s

(***************************************************************************)
(* C1.  The post is gated by the three validator conditions.               *)
(***************************************************************************)
ValidatorAccepts(f) ==
    /\ f.movedte # <<>>
    /\ f.email # <<>> \/ f.phone1 # <<>>
    /\ f.ostate # <<>> /\ f.dstate # <<>>

\* C1: a post is made only for a record with a move date, an email or a phone,
\* and both states; a record that fails one of the three is rejected with the
\* parsed record echoed, and never posted.
C1_PostOnlyIfValidated ==
    \A r \in Requests : Assembled(r) =>
        /\ posts[r] > 0 => ValidatorAccepts(fields[r])
        /\ (pc[r] = "done" /\ ~ValidatorAccepts(fields[r])) =>
              /\ posts[r] = 0
              /\ "parsed" \in DOMAIN response[r].content
              /\ response[r].content.parsed = fields[r]

(***************************************************************************)
(* C2.  The verdict on the reply text.                                     *)
(***************************************************************************)
\* the k-th comma-separated token of the reply, trimmed; empty if there is none
ReplyToken(text, k) ==
    LET parts == Split(text, ",")
    IN  IF k <= Len(parts) THEN Strip(parts[k]) ELSE <<>>

ReplyLeadId(text) ==
    IF PyInt(ReplyToken(text, 1)).ok THEN PyInt(ReplyToken(text, 1)).val ELSE 0

ReplyErrorId(text) ==
    IF PyInt(ReplyToken(text, 2)).ok THEN PyInt(ReplyToken(text, 2)).val ELSE 0 - 1

ExpectedVerdict(text) ==
    IF ReplyErrorId(text) = 0 /\ ReplyLeadId(text) > 0 THEN "success"
    ELSE IF ReplyErrorId(text) = 0 /\ ReplyLeadId(text) = 0 THEN "ambiguous"
    ELSE "failure"

\* what the caller is told
Verdict(resp) ==
    IF resp.content.ok THEN "success"
    ELSE IF "warning" \in DOMAIN resp.content THEN "ambiguous"
    ELSE "failure"

Replied(r) == pc[r] = "done" /\ "text" \in DOMAIN reply[r]

\* C2: the caller is told success exactly when errorId = 0 and leadId > 0, the
\* ambiguous warning exactly when errorId = 0 and leadId = 0, and plain failure
\* otherwise, leadId and errorId being the first two trimmed tokens of the reply
\* with 0 and -1 for an absent or unreadable token; a reply whose errorId token is
\* absent or unreadable is a plain failure; the two documented replies get their
\* documented verdicts.
C2_VerdictOfReply ==
    \A r \in Requests : Replied(r) =>
        /\ Verdict(response[r]) = ExpectedVerdict(reply[r].text)
        /\ ~PyInt(ReplyToken(reply[r].text, 2)).ok => Verdict(response[r]) = "failure"
        /\ reply[r].text = <<"1", "0", "4", "3", "6", "0", ",", "0", ",", "O", "K", ",", "6", ",", "6">> => Verdict(response[r]) = "success"
        /\ reply[r].text = <<"0", ",", "0", ",", ",", "0", ",", "0">> => Verdict(response[r]) = "ambiguous"
        /\ response[r].content.ok => "warning" \notin DOMAIN response[r].content
        /\ response[r].content.granot_response.leadid_int = ReplyLeadId(reply[r].text)
        /\ response[r].content.granot_response.errid_int = ReplyErrorId(reply[r].text)

\* the documented reply "0,0,,0,0" came back and the caller got the ambiguous
\* warning, not success
C2_Witness ==
    \E r \in Requests :
        /\ Replied(r)
        /\ reply[r].text = <<"0", ",", "0", ",", ",", "0", ",", "0">>
        /\ Verdict(response[r]) = "ambiguous"
        /\ response[r].content.granot_response.errid_int = 0

(***************************************************************************)
(* C3.  The service type of a posted record.                               *)
(***************************************************************************)
ServTypeOfStates(f) ==
    IF f.ostate # <<>> /\ f.dstate # <<>> /\ LowerStr(f.ostate) = LowerStr(f.dstate)
    THEN <<"1", "0", "1">> ELSE <<"1", "0", "2">>

\* C3: the servtypeid of a posted record is "101" when its two states are
\* non-empty and equal ignoring case, and "102" otherwise.
C3_ServTypeFromStates ==
    \A r \in Requests : posts[r] > 0 =>
        posted[r].data.servtypeid = ServTypeOfStates(posted[r].data)

(***************************************************************************)
(* C4.  The date found without a move-date line.                           *)
(***************************************************************************)
\* the dates of the tokens d{1,2}/d{1,2}/dddd of the text whose first number
\* exceeds 12 and that are calendar dates read day/month/year
DayFirstDates(text) ==
    {MakeDate(ToInt(m[3]), ToInt(m[2]), ToInt(m[1])) :
        m \in {DateTokenAt(text, i) : i \in DOMAIN text} \ {<<>>}}
    \ {NoDate}

DayFirstTokens(text) ==
    {dt \in DayFirstDates(text) : dt.day > 12}

\* C4: a text without a move-date line that holds a day-first date token yields
\* that date as MM/DD/YYYY.
C4_ScanWithoutLabel ==
    \A r \in Requests : Assembled(r) =>
        ((~HasLabelLine(NormText(r), MoveDateLabels) /\ DayFirstTokens(NormText(r)) # {})
            => fields[r].movedte \in {RenderMDY(dt) : dt \in DayFirstTokens(NormText(r))})

(***************************************************************************)
(* C5.  The labelled move date.                                            *)
(***************************************************************************)
\* DD/MM/YYYY, MM/DD/YYYY, YYYY/MM/DD
Templates == <<(<<"d", "m", "Y">>), (<<"m", "d", "Y">>), (<<"Y", "m", "d">>)>>

\* the labelled value with dots and dashes as slashes and no whitespace
CleanDateValue(v) ==
    SelectSeq([i \in DOMAIN v |-> IF v[i] \in {".", "-"} THEN "/" ELSE v[i]],
              LAMBDA c : ~IsSpace(c))

FirstTemplateDate(v) ==
    LET ok == {i \in DOMAIN Templates : strptime(CleanDateValue(v), Templates[i]) # NoDate}
    IN  IF ok = {} THEN NoDate ELSE strptime(CleanDateValue(v), Templates[SetMin(ok)])

\* the part of C5 about the order of the templates
C5_FirstTemplateWins ==
    \A r \in Requests : Assembled(r) =>
        LET v == LineValue(NormText(r), MoveDateLabels)
        IN  /\ FirstTemplateDate(v) # NoDate =>
                  fields[r].movedte = RenderMDY(FirstTemplateDate(v))
            /\ v = <<"2", "3", "/", "1", "2", "/", "2", "0", "2", "5">> => fields[r].movedte = <<"1", "2", "/", "2", "3", "/", "2", "0", "2", "5">>
            /\ v = <<"1", "2", "/", "2", "3", "/", "2", "0", "2", "5">> => fields[r].movedte = <<"1", "2", "/", "2", "3", "/", "2", "0", "2", "5">>
            /\ v = <<"2", "0", "2", "5", "-", "1", "2", "-", "2", "3">> => fields[r].movedte = <<"1", "2", "/", "2", "3", "/", "2", "0", "2", "5">>
            /\ v = <<"0", "1", "/", "0", "2", "/", "2", "0", "2", "5">> => fields[r].movedte = <<"0", "2", "/", "0", "1", "/", "2", "0", "2", "5">>

\* C5: a labelled move date is rendered MM/DD/YYYY from the first of the
\* templates DD/MM/YYYY, MM/DD/YYYY, YYYY/MM/DD under which it is a calendar date,
\* and movedte is always empty or a calendar date written MM/DD/YYYY.
C5_MoveDateForm ==
    /\ C5_FirstTemplateWins
    /\ \A r \in Requests : Assembled(r) =>
          fields[r].movedte = <<>> \/ IsMDY(fields[r].movedte)

(***************************************************************************)
(* C6.  The email.                                                         *)
(***************************************************************************)
\* C6: the email is the email-shaped token of the Email/E-mail line if that line
\* has one, otherwise the first email-shaped token of the whole text, otherwise
\* empty; so it is empty or email-shaped.
C6_EmailPreference ==
    \A r \in Requests : Assembled(r) =>
        LET onLine == EmailSearch(LineValue(NormText(r), EmailLabels))
        IN  /\ fields[r].email =
                  IF onLine # <<>> THEN onLine ELSE EmailSearch(NormText(r))
            /\ fields[r].email = <<>> \/ EmailShaped(fields[r].email)

(***************************************************************************)
(* C7.  The two states.                                                    *)
(***************************************************************************)
IsWordChar(c) == IsAlpha(c) \/ IsDigit(c) \/ c = "_"

\* the raw value uppercased, then its first standalone 2-letter token; without
\* one, its first 2 characters if it has 2; else empty
NormalState(raw) ==
    LET up == UpperStr(raw)
        TokenAt(i) ==
            /\ i + 1 <= Len(up)
            /\ IsAlpha(up[i]) /\ IsAlpha(up[i + 1])
            /\ i = 1 \/ ~IsWordChar(up[i - 1])
            /\ i + 2 > Len(up) \/ ~IsWordChar(up[i + 2])
        first == FirstIn(1, Len(up), TokenAt)
    IN  IF first <= Len(up) THEN SubSeq(up, first, first + 1)
        ELSE IF Len(up) >= 2 THEN SubSeq(up, 1, 2)
        ELSE <<>>

\* C7: ostate and dstate of an assembled record are the normalized form of the
\* labelled values, hence empty or 2 characters long.
C7_StatesNormalized ==
    \A r \in Requests : Assembled(r) =>
        /\ fields[r].ostate = NormalState(LineValue(NormText(r), OriginStateLabels))
        /\ fields[r].dstate = NormalState(LineValue(NormText(r), DestinationStateLabels))
        /\ Len(fields[r].ostate) \in {0, 2} /\ Len(fields[r].dstate) \in {0, 2}

(***************************************************************************)
(* C8.  The length caps.                                                   *)
(***************************************************************************)
FieldCap ==
    [firstname |-> 30, lastname |-> 30, email |-> 50, phone1 |-> 20, ocity |-> 30,
     ostate |-> 20, dstate |-> 20, ozip |-> 6, dzip |-> 6, movesize |-> 20, label |-> 20]

\* C8: in a posted record every capped field is within its maximum length.
C8_FieldsWithinCaps ==
    \A r \in Requests : posts[r] > 0 =>
        \A k \in DOMAIN FieldCap : Len(posted[r].data[k]) <= FieldCap[k]

(***************************************************************************)
(* C9.  The phone.                                                         *)
(***************************************************************************)
\* C9: phone1 is the digits of the value of the Phone / Phone number / Telephone
\* line, an 11-digit result that starts with 1 losing that 1, and is empty
\* without such a value; it holds digits only.
C9_PhoneFromItsLine ==
    \A r \in Requests : Assembled(r) =>
        LET digits == DigitsOf(LineValue(NormText(r), PhoneLabels))
        IN  /\ \A i \in DOMAIN fields[r].phone1 : IsDigit(fields[r].phone1[i])
            /\ fields[r].phone1 =
                  IF Len(digits) = 11 /\ digits[1] = "1" THEN Tail(digits) ELSE digits

(***************************************************************************)
(* C10.  One post per request at most, and independent requests.           *)
(***************************************************************************)
\* the request ended in an early return of the handler
Rejected(r) == pc[r] = "done" /\ "error" \in DOMAIN response[r].content

\* the reply the request got is no clean success
ReplyFailed(r) ==
    \/ "raised" \in DOMAIN reply[r]
    \/ /\ "text" \in DOMAIN reply[r]
       /\ \/ _parse_granot_response(reply[r].text).errid_int # 0
          \/ _parse_granot_response(reply[r].text).leadid_int <= 0

\* C10: a request posts at most once; a rejected request has posted nothing; a
\* request whose post raised or brought a failure or the ambiguous reply has
\* ended with that failure reported, after its one post; and two requests with
\* the same payload and the same reply got the same response.
C10_AtMostOnePost ==
    /\ \A r \in Requests :
          /\ posts[r] <= 1
          /\ Rejected(r) => posts[r] = 0
          /\ pc[r] = "posting" => posts[r] = 1
          /\ (pc[r] = "done" /\ ~Rejected(r)) =>
                /\ posts[r] = 1
                /\ "raised" \in DOMAIN reply[r] =>
                      response[r].status_code = 500 /\ "ok" \notin DOMAIN response[r].content
                /\ "text" \in DOMAIN reply[r] =>
                      /\ response[r].content.granot_status = reply[r].status_code
                      /\ response[r].content.ok = ~ReplyFailed(r)
    /\ \A r1, r2 \in Requests :
          (/\ pc[r1] = "done" /\ pc[r2] = "done"
           /\ payload[r1] = payload[r2] /\ reply[r1] = reply[r2])
          => response[r1] = response[r2]

\* two requests with the same payload each got the ambiguous reply to their one
\* post and both ended with the warning
C10_Witness ==
    \E r1, r2 \in Requests :
        /\ r1 # r2
        /\ pc[r1] = "done" /\ pc[r2] = "done"
        /\ payload[r1] = payload[r2]
        /\ posts[r1] = 1 /\ posts[r2] = 1
        /\ "warning" \in DOMAIN response[r1].content
        /\ "warning" \in DOMAIN response[r2].content

=============================================================================
